---- MODULE Spec2Model ----
(***************************************************************************)
(* A model of routes.py of CrystalLab: the upload / profile / delete /     *)
(* change_target_column / quality_issues request handlers and the load_df  *)
(* helper.  Text (file names, the filter parameter) is modelled as a       *)
(* sequence of one-character strings so that lower(), rsplit() and the     *)
(* stripping done by secure_filename are computed, not assumed.            *)
(***************************************************************************)
EXTENDS Integers, Sequences, FiniteSets, TLC

VARIABLES
    datasets,   \* the Dataset table: id -> record
    next_id,    \* the next primary key the table hands out
    uploads,    \* UPLOAD_FOLDER, uploaded files: file name -> content
    profiles,   \* UPLOAD_FOLDER, generated profile reports (their file names)
    session,    \* per user, the manual_target_column_<id> keys of the session
    clock,      \* datetime.now() at one-second resolution
    call,       \* arguments of a direct call of load_df (specification SpecLoad)
    resp        \* the last request: its inputs and the response it got

vars == <<datasets, next_id, uploads, profiles, session, clock, call, resp>>

----------------------------------------------------------------------------
\* Bounds of the model.

MaxDatasets == 2
MaxRows == 2
MaxNameLen == 4

----------------------------------------------------------------------------
\* Text.

\* A character of ASCII is a string of that one character; a character
\* beyond ASCII is written as its code point, "U+00E9" for e with acute, so
\* that the text does not depend on the encoding the module is read in.
\* Text is over U+0000..U+00FF.

\* The cased letters of ASCII and Latin-1, upper case and lower case in step.
UpperLetters ==
    <<"A", "B", "C", "D", "E", "F", "G", "H", "I", "J", "K", "L", "M", "N",
      "O", "P", "Q", "R", "S", "T", "U", "V", "W", "X", "Y", "Z", "U+00C0",
      "U+00C1", "U+00C2", "U+00C3", "U+00C4", "U+00C5", "U+00C6", "U+00C7",
      "U+00C8", "U+00C9", "U+00CA", "U+00CB", "U+00CC", "U+00CD", "U+00CE",
      "U+00CF", "U+00D0", "U+00D1", "U+00D2", "U+00D3", "U+00D4", "U+00D5",
      "U+00D6", "U+00D8", "U+00D9", "U+00DA", "U+00DB", "U+00DC", "U+00DD",
      "U+00DE">>

LowerLetters ==
    <<"a", "b", "c", "d", "e", "f", "g", "h", "i", "j", "k", "l", "m", "n",
      "o", "p", "q", "r", "s", "t", "u", "v", "w", "x", "y", "z", "U+00E0",
      "U+00E1", "U+00E2", "U+00E3", "U+00E4", "U+00E5", "U+00E6", "U+00E7",
      "U+00E8", "U+00E9", "U+00EA", "U+00EB", "U+00EC", "U+00ED", "U+00EE",
      "U+00EF", "U+00F0", "U+00F1", "U+00F2", "U+00F3", "U+00F4", "U+00F5",
      "U+00F6", "U+00F8", "U+00F9", "U+00FA", "U+00FB", "U+00FC", "U+00FD",
      "U+00FE">>

\* str.lower() of one character (ASCII and Latin-1)
LowerChar(c) ==
    IF \E i \in DOMAIN UpperLetters : UpperLetters[i] = c
    THEN LowerLetters[CHOOSE i \in DOMAIN UpperLetters : UpperLetters[i] = c]
    ELSE c

\* str.lower()
Lower(s) == [i \in 1..Len(s) |-> LowerChar(s[i])]

\* '.' in s
HasDot(s) == \E i \in 1..Len(s) : s[i] = "."

\* position of the last '.', 0 when there is none
LastDot(s) ==
    IF HasDot(s)
    THEN CHOOSE i \in 1..Len(s) :
            /\ s[i] = "."
            /\ \A j \in (i+1)..Len(s) : s[j] # "."
    ELSE 0

\* s.rsplit('.', 1)[-1]: the text after the last '.', the whole of s without one
RSplitLast(s) == SubSeq(s, LastDot(s) + 1, Len(s))

Str_csv == <<"c", "s", "v">>
Str_xls == <<"x", "l", "s">>
Str_xlsx == <<"x", "l", "s", "x">>

ALLOWED_EXTENSIONS == {Str_csv, Str_xlsx, Str_xls}

allowed_file(filename) ==
    /\ HasDot(filename)
    /\ Lower(RSplitLast(filename)) \in ALLOWED_EXTENSIONS

\* werkzeug.utils.secure_filename, as upload calls it.
AsciiLetters == {UpperLetters[i] : i \in 1..26} \cup {LowerLetters[i] : i \in 1..26}

AsciiDigits == {"0", "1", "2", "3", "4", "5", "6", "7", "8", "9"}

\* What str.split() splits on: space, tab, line feed, carriage return, form
\* feed, and (written as the characters themselves) vertical tab U+000B and
\* the separators U+001C..U+001F.
Whitespace ==
    {" ", "\t", "\n", "\r", "\f", "", "", "", "", ""}

\* The characters of U+0080..U+00FF whose NFKD decomposition has no ASCII part.
Latin1Dropped ==
    {"U+0080", "U+0081", "U+0082", "U+0083", "U+0084", "U+0085", "U+0086",
     "U+0087", "U+0088", "U+0089", "U+008A", "U+008B", "U+008C", "U+008D",
     "U+008E", "U+008F", "U+0090", "U+0091", "U+0092", "U+0093", "U+0094",
     "U+0095", "U+0096", "U+0097", "U+0098", "U+0099", "U+009A", "U+009B",
     "U+009C", "U+009D", "U+009E", "U+009F", "U+00A1", "U+00A2", "U+00A3",
     "U+00A4", "U+00A5", "U+00A6", "U+00A7", "U+00A9", "U+00AB", "U+00AC",
     "U+00AD", "U+00AE", "U+00B0", "U+00B1", "U+00B5", "U+00B6", "U+00B7",
     "U+00BB", "U+00BF", "U+00C6", "U+00D0", "U+00D7", "U+00D8", "U+00DE",
     "U+00DF", "U+00E6", "U+00F0", "U+00F7", "U+00F8", "U+00FE"}

\* unicodedata.normalize("NFKD", c).encode("ascii", "ignore") of one
\* character: an ASCII character is kept, a character beyond ASCII leaves the
\* ASCII part of its decomposition.
AsciiFold(c) ==
    CASE c \in Latin1Dropped -> <<>>
      [] c \in {"U+00A0", "U+00A8", "U+00AF", "U+00B4", "U+00B8"} -> <<" ">>
      [] c \in {"U+00AA", "U+00E0", "U+00E1", "U+00E2", "U+00E3", "U+00E4", "U+00E5"} -> <<"a">>
      [] c = "U+00B2" -> <<"2">>
      [] c = "U+00B3" -> <<"3">>
      [] c = "U+00B9" -> <<"1">>
      [] c \in {"U+00BA", "U+00F2", "U+00F3", "U+00F4", "U+00F5", "U+00F6"} -> <<"o">>
      [] c = "U+00BC" -> <<"1", "4">>
      [] c = "U+00BD" -> <<"1", "2">>
      [] c = "U+00BE" -> <<"3", "4">>
      [] c \in {"U+00C0", "U+00C1", "U+00C2", "U+00C3", "U+00C4", "U+00C5"} -> <<"A">>
      [] c = "U+00C7" -> <<"C">>
      [] c \in {"U+00C8", "U+00C9", "U+00CA", "U+00CB"} -> <<"E">>
      [] c \in {"U+00CC", "U+00CD", "U+00CE", "U+00CF"} -> <<"I">>
      [] c = "U+00D1" -> <<"N">>
      [] c \in {"U+00D2", "U+00D3", "U+00D4", "U+00D5", "U+00D6"} -> <<"O">>
      [] c \in {"U+00D9", "U+00DA", "U+00DB", "U+00DC"} -> <<"U">>
      [] c = "U+00DD" -> <<"Y">>
      [] c = "U+00E7" -> <<"c">>
      [] c \in {"U+00E8", "U+00E9", "U+00EA", "U+00EB"} -> <<"e">>
      [] c \in {"U+00EC", "U+00ED", "U+00EE", "U+00EF"} -> <<"i">>
      [] c = "U+00F1" -> <<"n">>
      [] c \in {"U+00F9", "U+00FA", "U+00FB", "U+00FC"} -> <<"u">>
      [] c \in {"U+00FD", "U+00FF"} -> <<"y">>
      [] OTHER -> <<c>>

RECURSIVE AsciiOnly(_)
AsciiOnly(s) ==
    IF s = <<>> THEN <<>> ELSE AsciiFold(Head(s)) \o AsciiOnly(Tail(s))

\* filename.replace(os.sep, " "); os.path.altsep is None on the POSIX host
ReplaceSep(s) == [i \in 1..Len(s) |-> IF s[i] = "/" THEN " " ELSE s[i]]

\* "_".join(s.split()): out is the text joined so far, gap says that
\* whitespace was passed since its last character.
RECURSIVE JoinSplit(_, _, _)
JoinSplit(s, out, gap) ==
    IF s = <<>> THEN out
    ELSE IF Head(s) \in Whitespace THEN JoinSplit(Tail(s), out, TRUE)
    ELSE JoinSplit(Tail(s),
                   IF gap /\ out # <<>>
                   THEN out \o <<"_", Head(s)>>
                   ELSE Append(out, Head(s)),
                   FALSE)

\* the characters _filename_ascii_strip_re keeps: [A-Za-z0-9_.-]
FilenameChars == AsciiLetters \cup AsciiDigits \cup {"_", ".", "-"}

KeepFilenameChar(c) == c \in FilenameChars

\* str.strip("._")
RECURSIVE StripLeft(_)
StripLeft(s) ==
    IF s # <<>> /\ Head(s) \in {".", "_"} THEN StripLeft(Tail(s)) ELSE s

RECURSIVE StripRight(_)
StripRight(s) ==
    IF s # <<>> /\ s[Len(s)] \in {".", "_"}
    THEN StripRight(SubSeq(s, 1, Len(s) - 1))
    ELSE s

\* The branch for os.name == "nt" is not taken on the POSIX host.
secure_filename(s) ==
    StripRight(StripLeft(
        SelectSeq(JoinSplit(ReplaceSep(AsciiOnly(s)), <<>>, FALSE),
                  KeepFilenameChar)))

----------------------------------------------------------------------------
\* Files and load_df.

\* What pandas makes of a file's bytes: the outcome of read_excel, of read_csv
\* with encoding utf-8 and of read_csv with encoding latin1, and the columns
\* of the frame a successful read returns.
ReadOutcomes ==
    [excel : {"ok", "error"},
     utf8 : {"ok", "decode_error", "error"},
     latin1 : {"ok", "error"}]

Missing == [excel |-> "error", utf8 |-> "error", latin1 |-> "error", cols |-> {}, exists |-> FALSE]

LoadFailed(ext, reads, err) ==
    [ok |-> FALSE, ext |-> ext, reads |-> reads, error |-> err, columns |-> {}]

LoadOk(ext, reads, file) ==
    [ok |-> TRUE, ext |-> ext, reads |-> reads, error |-> "none", columns |-> file.cols]

\* The mutant: the Latin-1 re-read after any failure of the UTF-8 read.
load_df_any_error(file, original_name) ==
    LET ext == RSplitLast(Lower(original_name)) IN
    IF ext \in {Str_xlsx, Str_xls}
    THEN IF file.excel = "ok"
         THEN LoadOk(ext, <<"excel">>, file)
         ELSE LoadFailed(ext, <<"excel">>, "read_error")
    ELSE IF ext = Str_csv
    THEN IF file.utf8 = "ok"
         THEN LoadOk(ext, <<"utf8">>, file)
         ELSE IF file.latin1 = "ok"
              THEN LoadOk(ext, <<"utf8", "latin1">>, file)
              ELSE LoadFailed(ext, <<"utf8", "latin1">>, "read_error")
    ELSE LoadFailed(ext, <<>>, "unsupported")

load_df(file, original_name) ==
    LET ext == RSplitLast(Lower(original_name)) IN
    IF ext \in {Str_xlsx, Str_xls}
    THEN IF file.excel = "ok"
         THEN LoadOk(ext, <<"excel">>, file)
         ELSE LoadFailed(ext, <<"excel">>, "read_error")
    ELSE IF ext = Str_csv
    THEN IF file.utf8 = "ok"
         THEN LoadOk(ext, <<"utf8">>, file)
         ELSE IF file.utf8 = "decode_error"
              THEN IF file.latin1 = "ok"
                   THEN LoadOk(ext, <<"utf8", "latin1">>, file)
                   ELSE LoadFailed(ext, <<"utf8", "latin1">>, "read_error")
              ELSE LoadFailed(ext, <<"utf8">>, "read_error")
    ELSE LoadFailed(ext, <<>>, "unsupported")

----------------------------------------------------------------------------
\* The application's state.

Users == {"u1", "u2"}
Ids == 1..MaxDatasets

\* An optional value (Python's None or a value): <<>> or <<v>>.
None == <<>>
Some(v) == <<v>>

\* Python truthiness of an optional string: neither None nor "".
Truthy(o) == o # None /\ o[1] # ""

Put(f, k, v) == [x \in (DOMAIN f) \cup {k} |-> IF x = k THEN v ELSE f[x]]
Remove(f, k) == [x \in (DOMAIN f) \ {k} |-> f[x]]

\* The file at a path of UPLOAD_FOLDER, Missing when there is none.
FileAt(path) == IF path \in DOMAIN uploads THEN uploads[path] ELSE Missing

\* f"profile_{dataset.id}.html"
ProfileName(id) == <<"profile", id>>

\* The mutant: one session key for every dataset.
SessionKey_shared(id) == 1

\* f"manual_target_column_{dataset.id}"
SessionKey(id) == id

NoBody == [kind |-> "none", loaded |-> FALSE]

Response(op, u, d, status, flash, req, body) ==
    [op |-> op, user |-> u, ds |-> d, status |-> status, flash |-> flash,
     req |-> req, body |-> body]

NoRequest == Response("none", "none", 0, "none", "none", NoBody, NoBody)

Init ==
    /\ datasets = <<>>
    /\ next_id = 1
    /\ uploads = <<>>
    /\ profiles = {}
    /\ session = [u \in Users |-> [d \in Ids |-> None]]
    /\ clock = 0
    /\ call = <<>>
    /\ resp = NoRequest

----------------------------------------------------------------------------
\* GET /dashboard: the user's own datasets.

dashboard(u) ==
    /\ resp' = Response("dashboard", u, 0, "200", "none", NoBody,
                        [kind |-> "dashboard.html", loaded |-> FALSE,
                         datasets |-> {d \in DOMAIN datasets : datasets[d].user_id = u}])
    /\ UNCHANGED <<datasets, next_id, uploads, profiles, session, clock, call>>

----------------------------------------------------------------------------
\* GET and POST /upload.  An empty fname is a request without a file.

upload(u, method, fname, file, now) ==
    LET req == [method |-> method, filename |-> fname] IN
    IF method # "POST"
    THEN /\ resp' = Response("upload", u, 0, "200", "none", req,
                             [kind |-> "upload.html", loaded |-> FALSE])
         /\ UNCHANGED <<datasets, next_id, uploads, profiles, session, clock, call>>
    ELSE IF fname = <<>>
    THEN /\ resp' = Response("upload", u, 0, "302", "error:no_file", req, NoBody)
         /\ UNCHANGED <<datasets, next_id, uploads, profiles, session, clock, call>>
    ELSE IF allowed_file(fname)
    THEN LET filename == secure_filename(fname)
             final_name == <<u, now, filename>>
             dataset == [user_id |-> u,
                         filename |-> final_name,
                         original_filename |-> filename,
                         profile_generated |-> FALSE,
                         profile_path |-> None]
         IN /\ next_id <= MaxDatasets
            /\ clock' = now
            /\ uploads' = Put(uploads, final_name, file)
            /\ datasets' = Put(datasets, next_id, dataset)
            /\ next_id' = next_id + 1
            /\ resp' = Response("upload", u, next_id, "302", "success:uploaded", req, NoBody)
            /\ UNCHANGED <<profiles, session, call>>
    ELSE /\ resp' = Response("upload", u, 0, "302", "error:invalid_type", req, NoBody)
         /\ UNCHANGED <<datasets, next_id, uploads, profiles, session, clock, call>>

----------------------------------------------------------------------------
\* GET /profile/<id>.  gen says whether ProfileReport or to_file raises once
\* the file is loaded, before any report file is written.

profile_dataset(u, d, gen) ==
    LET req == [gen |-> gen] IN
    IF d \notin DOMAIN datasets
    THEN /\ resp' = Response("profile_dataset", u, d, "404", "none", req, NoBody)
         /\ UNCHANGED <<datasets, next_id, uploads, profiles, session, clock, call>>
    ELSE LET dataset == datasets[d] IN
    IF dataset.user_id # u
    THEN /\ resp' = Response("profile_dataset", u, d, "302", "error:access_denied", req, NoBody)
         /\ UNCHANGED <<datasets, next_id, uploads, profiles, session, clock, call>>
    ELSE IF ~dataset.profile_generated
    THEN LET df == load_df(FileAt(dataset.filename), dataset.original_filename) IN
         IF ~df.ok \/ gen = "report_error"
         THEN /\ resp' = Response("profile_dataset", u, d, "302", "error:generating_profile",
                                  req, [kind |-> "none", loaded |-> df.ok])
              /\ UNCHANGED <<datasets, next_id, uploads, profiles, session, clock, call>>
         ELSE /\ profiles' = profiles \cup {ProfileName(d)}
              /\ datasets' = [datasets EXCEPT ![d].profile_generated = TRUE,
                                              ![d].profile_path = Some(ProfileName(d))]
              /\ resp' = Response("profile_dataset", u, d, "200", "success:profile_generated",
                                  req, [kind |-> "profile.html", loaded |-> TRUE])
              /\ UNCHANGED <<next_id, uploads, session, clock, call>>
    ELSE /\ resp' = Response("profile_dataset", u, d, "200", "none",
                             req, [kind |-> "profile.html", loaded |-> FALSE])
         /\ UNCHANGED <<datasets, next_id, uploads, profiles, session, clock, call>>

----------------------------------------------------------------------------
\* GET /view_profile/<id>

view_profile(u, d) ==
    /\ UNCHANGED <<datasets, next_id, uploads, profiles, session, clock, call>>
    /\ IF d \notin DOMAIN datasets
       THEN resp' = Response("view_profile", u, d, "404", "none", NoBody, NoBody)
       ELSE IF datasets[d].user_id # u
       THEN resp' = Response("view_profile", u, d, "302", "error:access_denied", NoBody, NoBody)
       ELSE IF ~datasets[d].profile_generated
       THEN resp' = Response("view_profile", u, d, "302", "none", NoBody,
                             [kind |-> "redirect:profile_dataset", loaded |-> FALSE])
       ELSE resp' = Response("view_profile", u, d, "200", "none", NoBody,
                             [kind |-> "view_report.html", loaded |-> FALSE])

\* GET /profile_report/<id>
profile_report(u, d) ==
    /\ UNCHANGED <<datasets, next_id, uploads, profiles, session, clock, call>>
    /\ IF d \notin DOMAIN datasets
       THEN resp' = Response("profile_report", u, d, "404", "none", NoBody, NoBody)
       ELSE IF datasets[d].user_id # u
       THEN resp' = Response("profile_report", u, d, "403", "none", NoBody, NoBody)
       ELSE IF ~datasets[d].profile_generated
       THEN resp' = Response("profile_report", u, d, "404", "none", NoBody,
                             [kind |-> "profile_not_generated", loaded |-> FALSE])
       ELSE IF datasets[d].profile_path[1] \in profiles
       THEN resp' = Response("profile_report", u, d, "200", "none", NoBody,
                             [kind |-> "file", loaded |-> TRUE])
       \* send_file on a path that is gone
       ELSE resp' = Response("profile_report", u, d, "500", "none", NoBody, NoBody)

----------------------------------------------------------------------------
\* POST /delete/<id>.  fail names the os.remove of the try block that raises,
\* if it runs: that of the upload or that of the profile report.

delete_dataset(u, d, fail) ==
    LET req == [fail |-> fail] IN
    IF d \notin DOMAIN datasets
    THEN /\ resp' = Response("delete_dataset", u, d, "404", "none", req, NoBody)
         /\ UNCHANGED <<datasets, next_id, uploads, profiles, session, clock, call>>
    ELSE LET dataset == datasets[d] IN
    IF dataset.user_id # u
    THEN /\ resp' = Response("delete_dataset", u, d, "302", "error:access_denied", req, NoBody)
         /\ UNCHANGED <<datasets, next_id, uploads, profiles, session, clock, call>>
    ELSE LET has_file == dataset.filename \in DOMAIN uploads
             has_profile == /\ dataset.profile_path # None
                            /\ dataset.profile_path[1] \in profiles
             raise1 == has_file /\ fail = "remove_file"
             raise2 == ~raise1 /\ has_profile /\ fail = "remove_profile"
         IN /\ uploads' = IF has_file /\ ~raise1
                          THEN Remove(uploads, dataset.filename)
                          ELSE uploads
            /\ profiles' = IF has_profile /\ ~raise1 /\ ~raise2
                           THEN profiles \ {dataset.profile_path[1]}
                           ELSE profiles
            /\ datasets' = IF raise1 \/ raise2
                           THEN datasets
                           ELSE Remove(datasets, d)
            /\ resp' = Response("delete_dataset", u, d, "302",
                                IF raise1 \/ raise2
                                THEN "error:deleting" ELSE "success:deleted",
                                req, NoBody)
            /\ UNCHANGED <<next_id, session, clock, call>>

----------------------------------------------------------------------------
\* POST /change_target_column/<id>.  target_col is request.form.get("target_col").

change_target_column(u, d, target_col) ==
    LET req == [target_col |-> target_col] IN
    IF d \notin DOMAIN datasets
    THEN /\ resp' = Response("change_target_column", u, d, "404", "none", req, NoBody)
         /\ UNCHANGED <<datasets, next_id, uploads, profiles, session, clock, call>>
    ELSE IF datasets[d].user_id # u
    THEN /\ resp' = Response("change_target_column", u, d, "302", "error:access_denied", req, NoBody)
         /\ UNCHANGED <<datasets, next_id, uploads, profiles, session, clock, call>>
    ELSE IF ~Truthy(target_col)
    THEN /\ resp' = Response("change_target_column", u, d, "302", "error:no_target", req, NoBody)
         /\ UNCHANGED <<datasets, next_id, uploads, profiles, session, clock, call>>
    ELSE /\ session' = [session EXCEPT ![u][SessionKey(d)] = target_col]
         /\ resp' = Response("change_target_column", u, d, "302", "success:target_changed", req, NoBody)
         /\ UNCHANGED <<datasets, next_id, uploads, profiles, clock, call>>

----------------------------------------------------------------------------
\* GET /quality/<id>: the report aggregator.

Str_all == <<"a", "l", "l">>
Str_ai == <<"a", "i">>
Str_statistical == <<"s", "t", "a", "t", "i", "s", "t", "i", "c", "a", "l">>
Str_structural == <<"s", "t", "r", "u", "c", "t", "u", "r", "a", "l">>

TypeColumn == "__outlier_type__"

\* A data frame: its columns and its rows in order.  A row of the merged
\* frame is the dataset row it copies (index) and its __outlier_type__ (type).
EmptyFrame == [columns |-> {}, rows |-> <<>>]

\* temp = df.loc[idx].copy(); temp["__outlier_type__"] = tag
Tagged(df, idx, tag) ==
    [columns |-> df.columns \cup {TypeColumn},
     rows |-> [k \in 1..Len(idx) |-> [index |-> idx[k], type |-> tag]]]

RECURSIVE Concat(_)
\* pd.concat(frames, ignore_index=True)
Concat(frames) ==
    IF frames = <<>>
    THEN EmptyFrame
    ELSE LET rest == Concat(Tail(frames)) IN
         [columns |-> Head(frames).columns \cup rest.columns,
          rows |-> Head(frames).rows \o rest.rows]

\* The mutant: the structural rows are left out of the merge.
MergeOutliers_no_structural(df, statistical_idx, semantic_idx, structural_idx) ==
    LET merged_rows ==
            (IF statistical_idx # <<>>
             THEN <<Tagged(df, statistical_idx, "Statistical")>> ELSE <<>>)
            \o (IF semantic_idx # <<>>
                THEN <<Tagged(df, semantic_idx, "AI-Based")>> ELSE <<>>)
    IN IF merged_rows # <<>> THEN Concat(merged_rows) ELSE EmptyFrame

\* merged_rows and merged_df
MergeOutliers(df, statistical_idx, semantic_idx, structural_idx) ==
    LET merged_rows ==
            (IF statistical_idx # <<>>
             THEN <<Tagged(df, statistical_idx, "Statistical")>> ELSE <<>>)
            \o (IF semantic_idx # <<>>
                THEN <<Tagged(df, semantic_idx, "AI-Based")>> ELSE <<>>)
            \o (IF structural_idx # <<>>
                THEN <<Tagged(df, structural_idx, "Structural")>> ELSE <<>>)
    IN IF merged_rows # <<>> THEN Concat(merged_rows) ELSE EmptyFrame

\* request.args.get("filter", "all").lower()
SelectedFilter(flt) == IF flt = None THEN Lower(Str_all) ELSE Lower(flt[1])

RECURSIVE SelectRows(_, _)
SelectRows(rows, tag) ==
    IF rows = <<>>
    THEN <<>>
    ELSE (IF Head(rows).type = tag THEN <<Head(rows)>> ELSE <<>>)
         \o SelectRows(Tail(rows), tag)

\* merged_df[merged_df["__outlier_type__"] == tag]: a KeyError when the frame
\* has no such column.
FilterByType(merged_df, tag) ==
    IF TypeColumn \in merged_df.columns
    THEN [error |-> "none",
          frame |-> [columns |-> merged_df.columns,
                     rows |-> SelectRows(merged_df.rows, tag)]]
    ELSE [error |-> "KeyError", frame |-> EmptyFrame]

FilteredFrame(merged_df, selected_filter) ==
    IF selected_filter = Str_statistical
    THEN FilterByType(merged_df, "Statistical")
    ELSE IF selected_filter = Str_ai
    THEN FilterByType(merged_df, "AI-Based")
    ELSE IF selected_filter = Str_structural
    THEN FilterByType(merged_df, "Structural")
    ELSE [error |-> "none", frame |-> merged_df]

\* DataFrame.empty
FrameEmpty(frame) == frame.rows = <<>> \/ frame.columns = {}

MetricKeys ==
    {"missing_cells", "missing_cells_percent", "duplicate_rows", "duplicate_rows_percent"}

\* dict.get(key, default)
Get(dict, key, default) == IF key \in DOMAIN dict THEN dict[key] ELSE default

\* The mutant: one lookup for the four metrics, "N/A" for all four when any is absent.
YMetric_all_or_nothing(y_stats, key) ==
    IF y_stats # None /\ DOMAIN y_stats[1] = MetricKeys
    THEN y_stats[1][key]
    ELSE "N/A"

\* y_stats.get(key, "N/A") if y_stats else "N/A"
YMetric(y_stats, key) ==
    IF y_stats # None /\ DOMAIN y_stats[1] # {}
    THEN Get(y_stats[1], key, "N/A")
    ELSE "N/A"

\* The mutant: the stored override wins even when it names no column.
ResolveTarget_unchecked(manual_target, columns, auto) ==
    IF Truthy(manual_target)
    THEN [detected_target |-> manual_target, auto_invoked |-> FALSE,
          pop |-> FALSE]
    ELSE [detected_target |-> auto, auto_invoked |-> TRUE,
          pop |-> FALSE]

\* The mutant: the session key is popped whenever an override is stored.
ResolveTarget_always_pop(manual_target, columns, auto) ==
    IF Truthy(manual_target) /\ manual_target[1] \in columns
    THEN [detected_target |-> manual_target, auto_invoked |-> FALSE,
          pop |-> TRUE]
    ELSE [detected_target |-> auto, auto_invoked |-> TRUE,
          pop |-> Truthy(manual_target)]

\* The target column: the session's override when it names a column, else
\* auto_detect_target_column(df) (auto is what that call returns); pop says
\* whether the session key is popped.
ResolveTarget(manual_target, columns, auto) ==
    IF Truthy(manual_target) /\ manual_target[1] \in columns
    THEN [detected_target |-> manual_target, auto_invoked |-> FALSE,
          pop |-> FALSE]
    ELSE [detected_target |-> auto, auto_invoked |-> TRUE,
          pop |-> Truthy(manual_target) /\ manual_target[1] \notin columns]

quality_issues(u, d, flt, out_tbl, extracted, auto) ==
    LET req == [filter |-> flt, out_tbl |-> out_tbl, extracted |-> extracted, auto |-> auto] IN
    IF d \notin DOMAIN datasets
    THEN /\ resp' = Response("quality_issues", u, d, "404", "none", req, NoBody)
         /\ UNCHANGED <<datasets, next_id, uploads, profiles, session, clock, call>>
    ELSE
    LET dataset == datasets[d]
        df == load_df(FileAt(dataset.filename), dataset.original_filename)
    IN
    IF ~df.ok
    THEN /\ resp' = Response("quality_issues", u, d, "500", "none", req,
                             [kind |-> "none", loaded |-> FALSE, error |-> df.error])
         /\ UNCHANGED <<datasets, next_id, uploads, profiles, session, clock, call>>
    ELSE
    LET extractor_invoked == dataset.profile_generated /\ dataset.profile_path # None
        y_stats == IF extractor_invoked THEN extracted ELSE None
        structural_idx == out_tbl.structural_indices
        statistical_idx == out_tbl.statistical_indices
        semantic_idx == out_tbl.semantic_indices
        merged_df == MergeOutliers(df, statistical_idx, semantic_idx, structural_idx)
        selected_filter == SelectedFilter(flt)
        filtered == FilteredFrame(merged_df, selected_filter)
    IN
    IF filtered.error # "none"
    THEN /\ resp' = Response("quality_issues", u, d, "500", "none", req,
                             [kind |-> "none", loaded |-> TRUE, error |-> filtered.error])
         /\ UNCHANGED <<datasets, next_id, uploads, profiles, session, clock, call>>
    ELSE
    LET manual_target == session[u][SessionKey(d)]
        target == ResolveTarget(manual_target, df.columns, auto)
        body == [kind |-> "quality_report.html",
                 loaded |-> TRUE,
                 merged_df |-> merged_df,
                 filtered_df |-> filtered.frame,
                 merged_table |-> IF ~FrameEmpty(filtered.frame)
                                  THEN "table" ELSE "no_outliers_message",
                 selected_filter |-> selected_filter,
                 outlier_total |-> out_tbl.outlier_count,
                 structural_count |-> Len(structural_idx),
                 statistical_count |-> Len(statistical_idx),
                 semantic_count |-> Len(semantic_idx),
                 extractor_invoked |-> extractor_invoked,
                 y_missing_cells |-> YMetric(y_stats, "missing_cells"),
                 y_missing_percent |-> YMetric(y_stats, "missing_cells_percent"),
                 y_dup_rows |-> YMetric(y_stats, "duplicate_rows"),
                 y_dup_percent |-> YMetric(y_stats, "duplicate_rows_percent"),
                 manual_target |-> manual_target,
                 auto_invoked |-> target.auto_invoked,
                 detected_target |-> target.detected_target,
                 label_target_col |-> target.detected_target,
                 df_columns |-> df.columns]
    IN /\ IF auto = None THEN TRUE ELSE auto[1] \in df.columns
       /\ session' = IF target.pop
                     THEN [session EXCEPT ![u][SessionKey(d)] = None]
                     ELSE session
       /\ resp' = Response("quality_issues", u, d, "200", "none", req, body)
       /\ UNCHANGED <<datasets, next_id, uploads, profiles, clock, call>>

----------------------------------------------------------------------------
\* Inputs of the requests.

Name_empty == <<>>
Name_a_CSV == <<"a", ".", "C", "S", "V">>
Name_dot_csv == <<".", "c", "s", "v">>
Name_a_txt == <<"a", ".", "t", "x", "t">>

UploadNames == {Name_empty, Name_a_CSV, Name_a_txt}

CsvUtf8 == [excel |-> "error", utf8 |-> "ok", latin1 |-> "ok", cols |-> {"a", "b"}, exists |-> TRUE]

UploadFiles == {CsvUtf8}

TargetInputs == {None, Some(""), Some("a"), Some("z")}

RECURSIVE Ascending(_)
\* The members of a set of numbers as an ascending list.
Ascending(S) ==
    IF S = {}
    THEN <<>>
    ELSE LET m == CHOOSE x \in S : \A y \in S : x <= y
         IN <<m>> \o Ascending(S \ {m})

Range(seq) == {seq[k] : k \in 1..Len(seq)}

\* What detect_outliers returns: per method a list of flagged row indices, each
\* index once, and the size of their union.
OutTbl(statistical, semantic, structural) ==
    [statistical_indices |-> Ascending(statistical),
     semantic_indices |-> Ascending(semantic),
     structural_indices |-> Ascending(structural),
     outlier_count |-> Cardinality(statistical \cup semantic \cup structural)]

RowIndices == 0..(MaxRows - 1)

OutlierTables ==
    {OutTbl(a, b, c) : a \in SUBSET RowIndices, b \in SUBSET RowIndices, c \in SUBSET RowIndices}

NoOutliers == OutTbl({}, {}, {})
OneOutlier == OutTbl({0}, {}, {0})

FilterInputs ==
    {None, Some(Str_all), Some(Str_statistical), Some(Str_ai), Some(Str_structural),
     Some(<<"A", "I">>), Some(<<"S", "T", "A", "T", "I", "S", "T", "I", "C", "A", "L">>),
     Some(<<"x">>), Some(<<>>)}

MetricValue(key) ==
    CASE key = "missing_cells" -> "12"
      [] key = "missing_cells_percent" -> "1.5%"
      [] key = "duplicate_rows" -> "3"
      [] key = "duplicate_rows_percent" -> "0.4%"

\* What extract_ydata_overview_stats returns: None, or a dict holding the
\* metrics it found.
ExtractedStats ==
    {None} \cup {Some([k \in K |-> MetricValue(k)]) : K \in SUBSET MetricKeys}

\* What auto_detect_target_column returns: None or a column name.
AutoTargets == {None, Some("a"), Some("b")}

----------------------------------------------------------------------------
\* The application: every handler, any logged-in user, any dataset id.

Dashboard == \E u \in Users : dashboard(u)

Upload == \E u \in Users, fname \in UploadNames, file \in UploadFiles, now \in {clock, clock + 1} :
            upload(u, "POST", fname, file, now)

UploadForm == \E u \in Users : upload(u, "GET", Name_empty, CsvUtf8, clock)

ProfileDataset == \E u \in Users, d \in Ids, gen \in {"ok", "report_error"} :
            profile_dataset(u, d, gen)

ViewProfile == \E u \in Users, d \in Ids : view_profile(u, d)

ProfileReport == \E u \in Users, d \in Ids : profile_report(u, d)

DeleteDataset == \E u \in Users, d \in Ids,
                    fail \in {"none", "remove_file", "remove_profile"} :
            delete_dataset(u, d, fail)

ChangeTargetColumn == \E u \in Users, d \in Ids, target_col \in TargetInputs :
            change_target_column(u, d, target_col)

QualityIssues == \E u \in Users, d \in Ids,
                    in \in {<<None, OneOutlier>>, <<Some(Str_ai), NoOutliers>>} :
            quality_issues(u, d, in[1], in[2], None, Some("b"))

Next ==
    \/ Dashboard
    \/ UploadForm
    \/ Upload
    \/ ProfileDataset
    \/ ViewProfile
    \/ ProfileReport
    \/ DeleteDataset
    \/ ChangeTargetColumn
    \/ QualityIssues

Spec == Init /\ [][Next]_vars

----------------------------------------------------------------------------
\* The quality report of one dataset, over every outcome of the analyzers.

\* The outcomes of the analyzers and the filter parameter, drawn once per
\* behaviour: every filter with every outlier table, and every extractor
\* result with every auto-detected target.
ReportInputs ==
    {[filter |-> f, out_tbl |-> o, extracted |-> None, auto |-> None] :
        f \in FilterInputs, o \in OutlierTables}
    \cup
    {[filter |-> None, out_tbl |-> OneOutlier, extracted |-> e, auto |-> a] :
        e \in ExtractedStats, a \in AutoTargets}

InitReport ==
    /\ datasets = <<>>
    /\ next_id = 1
    /\ uploads = <<>>
    /\ profiles = {}
    /\ session = [u \in Users |-> [d \in Ids |-> None]]
    /\ clock = 0
    /\ call \in {Some(i) : i \in ReportInputs}
    /\ resp = NoRequest

ReportUpload ==
    /\ next_id = 1
    /\ upload("u1", "POST", Name_dot_csv, CsvUtf8, clock)

ReportProfile == profile_dataset("u1", 1, "ok")

ReportChangeTarget == \E target_col \in TargetInputs : change_target_column("u1", 1, target_col)

ReportQuality ==
    quality_issues("u1", 1, call[1].filter, call[1].out_tbl, call[1].extracted, call[1].auto)

NextReport ==
    \/ ReportUpload
    \/ ReportProfile
    \/ ReportChangeTarget
    \/ ReportQuality

SpecReport == InitReport /\ [][NextReport]_vars

----------------------------------------------------------------------------
\* load_df called directly on any file name and any file.

NameAlphabet == {".", "c", "s", "v", "x", "l", "C"}

RECURSIVE NamesOfLen(_)
NamesOfLen(n) ==
    IF n = 0
    THEN {<<>>}
    ELSE {<<c>> \o s : c \in NameAlphabet, s \in NamesOfLen(n - 1)}

Names == UNION {NamesOfLen(n) : n \in 0..MaxNameLen}

LoadFiles == {[excel |-> r.excel, utf8 |-> r.utf8, latin1 |-> r.latin1,
               cols |-> {"a", "b"}, exists |-> TRUE] : r \in ReadOutcomes}

InitLoad ==
    /\ datasets = <<>>
    /\ next_id = 1
    /\ uploads = <<>>
    /\ profiles = {}
    /\ session = [u \in Users |-> [d \in Ids |-> None]]
    /\ clock = 0
    /\ call \in {Some(n) : n \in Names}
    /\ resp = NoRequest

LoadCall ==
    /\ resp = NoRequest
    /\ \E file \in LoadFiles :
          resp' = Response("load_df", "none", 0, "none", "none",
                           [file |-> file, original_name |-> call[1]],
                           load_df(file, call[1]))
    /\ UNCHANGED <<datasets, next_id, uploads, profiles, session, clock, call>>

NextLoad == LoadCall

SpecLoad == InitLoad /\ [][NextLoad]_vars

----------------------------------------------------------------------------
\* Properties.

\* The last request was a quality report request on a dataset load_df loaded.
QualityLoaded == resp.op = "quality_issues" /\ resp.body.loaded

\* The last request was a quality report request that rendered its report.
QualityRendered == resp.op = "quality_issues" /\ resp.status = "200"

\* The columns of dataset d as load_df reads them now.
ColumnsOf(d) ==
    IF d \in DOMAIN datasets
    THEN load_df(FileAt(datasets[d].filename), datasets[d].original_filename).columns
    ELSE {}

Methods == {"statistical", "semantic", "structural"}

TagOf(m) ==
    CASE m = "statistical" -> "Statistical"
      [] m = "semantic" -> "AI-Based"
      [] m = "structural" -> "Structural"

FlaggedBy(out_tbl, m) ==
    CASE m = "statistical" -> Range(out_tbl.statistical_indices)
      [] m = "semantic" -> Range(out_tbl.semantic_indices)
      [] m = "structural" -> Range(out_tbl.structural_indices)

\* How many rows of a frame copy dataset row i with tag t.
Occurrences(rows, i, t) ==
    Cardinality({k \in 1..Len(rows) : rows[k].index = i /\ rows[k].type = t})

\* The rows of a frame that carry tag t, in order.
RowsTagged(rows, t) ==
    LET keep == {k \in 1..Len(rows) : rows[k].type = t}
        order == Ascending(keep)
    IN [j \in 1..Len(order) |-> rows[order[j]]]

\* Case-insensitive comparison of a request parameter with a keyword.
SameIgnoringCase(flt, word) ==
    /\ flt # None
    /\ Len(flt[1]) = Len(word)
    /\ \A k \in 1..Len(word) : flt[1][k] = word[k] \/ LowerChar(flt[1][k]) = word[k]

\* C1: every quality_issues request on a dataset that load_df loads, whatever
\* the three outlier index lists and the filter parameter, renders a report.
C1_ReportAlwaysRenders == QualityLoaded => resp.status = "200"

\* C2: the filtered view is the tagged rows of the category the filter
\* parameter names (statistical, ai, structural, compared without case), and
\* the whole tagged sequence for every other value or a missing parameter.
C2_FilterSelectsByTag ==
    QualityLoaded =>
        /\ resp.status = "200"
        /\ LET flt == resp.req.filter
               all == resp.body.merged_df.rows
               view == resp.body.filtered_df.rows
           IN IF SameIgnoringCase(flt, Str_statistical)
              THEN view = RowsTagged(all, "Statistical")
              ELSE IF SameIgnoringCase(flt, Str_ai)
              THEN view = RowsTagged(all, "AI-Based")
              ELSE IF SameIgnoringCase(flt, Str_structural)
              THEN view = RowsTagged(all, "Structural")
              ELSE view = all

\* The part of C2 that the code keeps: whenever the report renders, the view
\* is the one the filter parameter selects.
C2_RenderedViewMatchesFilter ==
    QualityRendered =>
        LET flt == resp.req.filter
            all == resp.body.merged_df.rows
            view == resp.body.filtered_df.rows
        IN IF SameIgnoringCase(flt, Str_statistical)
           THEN view = RowsTagged(all, "Statistical")
           ELSE IF SameIgnoringCase(flt, Str_ai)
           THEN view = RowsTagged(all, "AI-Based")
           ELSE IF SameIgnoringCase(flt, Str_structural)
           THEN view = RowsTagged(all, "Structural")
           ELSE view = all

\* C3: in a rendered report the merged sequence holds, for every row i and
\* every method m, exactly one entry (i, tag of m) when m flagged i and none
\* otherwise, and its length is the sum of the three per-method counts
\* passed to the template.
C3_OncePerMethod ==
    QualityRendered =>
        LET rows == resp.body.merged_df.rows
            out_tbl == resp.req.out_tbl
        IN /\ \A i \in RowIndices, m \in Methods :
                Occurrences(rows, i, TagOf(m)) =
                    IF i \in FlaggedBy(out_tbl, m) THEN 1 ELSE 0
           /\ Len(rows) = resp.body.statistical_count + resp.body.semantic_count
                            + resp.body.structural_count

\* C3 witness: a report whose merged sequence holds a row flagged by two
\* methods, once per tag.
C3_Witness ==
    /\ QualityRendered
    /\ \E i \in RowIndices :
          /\ i \in FlaggedBy(resp.req.out_tbl, "statistical")
          /\ i \in FlaggedBy(resp.req.out_tbl, "structural")
          /\ Occurrences(resp.body.merged_df.rows, i, "Statistical") = 1
          /\ Occurrences(resp.body.merged_df.rows, i, "Structural") = 1

\* C4: a quality_issues request that renders resolves the target to the
\* stored override, without calling auto_detect_target_column, when the
\* override names a column of the dataset, and to the result of
\* auto_detect_target_column in every other case; that target is the one
\* passed to detect_label_issues and the one reported as detected_target.
C4_TargetResolution ==
    [][(resp'.op = "quality_issues" /\ resp'.status = "200") =>
        LET override == session[resp'.user][resp'.ds]
            columns == ColumnsOf(resp'.ds)
        IN /\ IF override # None /\ override[1] \in columns
              THEN /\ resp'.body.detected_target = override
                   /\ ~resp'.body.auto_invoked
              ELSE /\ resp'.body.detected_target = resp'.req.auto
                   /\ resp'.body.auto_invoked
           /\ resp'.body.label_target_col = resp'.body.detected_target]_vars

\* C4 witness: a report rendered with a stored override that names a column:
\* the override is the target and auto-detection was not called.
C4_Witness ==
    /\ QualityRendered
    /\ resp.body.manual_target = Some("a")
    /\ resp.body.detected_target = Some("a")
    /\ ~resp.body.auto_invoked
    /\ resp.req.auto # Some("a")

\* C5 as claimed: no quality_issues request changes a stored override; only
\* change_target_column does.
C5_OverrideReadOnly ==
    [][session' # session => resp'.op = "change_target_column"]_vars

\* C5 amended: a stored override changes only by the owner's
\* change_target_column for that dataset, or by a quality_issues request for
\* that dataset which removes an override naming no column of the dataset;
\* quality_issues changes no other override and never one naming a column.
C5_OverrideOnlyPoppedWhenStale ==
    [][\A u \in Users, d \in Ids :
        session'[u][d] # session[u][d] =>
            \/ /\ resp'.op = "change_target_column"
               /\ resp'.user = u
               /\ resp'.ds = d
            \/ /\ resp'.op = "quality_issues"
               /\ resp'.user = u
               /\ resp'.ds = d
               /\ session[u][d] # None
               /\ session[u][d][1] \notin ColumnsOf(d)
               /\ session'[u][d] = None]_vars

\* C5 witness: a report rendered for a session whose override named no
\* column of the dataset; the override is gone from the session.
C5_Witness ==
    /\ QualityRendered
    /\ resp.body.manual_target = Some("z")
    /\ session[resp.user][resp.ds] = None

\* C6: overrides are absent at the start and appear for dataset d only by a
\* change_target_column for d in that session; an override naming a column
\* of d stays, and is the target of every report rendered for d in that
\* session, until the next change_target_column for d, whatever is
\* requested for other datasets; change_target_column for d changes the
\* override of no other dataset.
C6_OverrideScopedPerDataset ==
    /\ \A u \in Users, d \in Ids : session[u][d] = None
    /\ [][\A u \in Users, d \in Ids :
            LET here == resp'.user = u /\ resp'.ds = d
                changed == resp'.op = "change_target_column" /\ here
            IN /\ (session[u][d] = None /\ session'[u][d] # None) => changed
               /\ (resp'.op = "change_target_column" /\ ~here) =>
                      session'[u][d] = session[u][d]
               /\ (/\ session[u][d] # None
                   /\ session[u][d][1] \in ColumnsOf(d)
                   /\ ~changed) =>
                      /\ session'[u][d] = session[u][d]
                      /\ (resp'.op = "quality_issues" /\ here /\ resp'.status = "200") =>
                            resp'.body.detected_target = session[u][d]]_vars

\* C6 witness: a report for dataset d rendered with d's override as its
\* target while another dataset of the same session holds a different
\* override.
C6_Witness ==
    /\ QualityRendered
    /\ resp.body.detected_target = Some("a")
    /\ session[resp.user][resp.ds] = Some("a")
    /\ \E e \in Ids \ {resp.ds} :
          /\ e \in DOMAIN datasets
          /\ session[resp.user][e] = Some("z")

ReportedMetric(body, key) ==
    CASE key = "missing_cells" -> body.y_missing_cells
      [] key = "missing_cells_percent" -> body.y_missing_percent
      [] key = "duplicate_rows" -> body.y_dup_rows
      [] key = "duplicate_rows_percent" -> body.y_dup_percent

\* C7: in a rendered report the extractor was invoked exactly when the
\* dataset has profile_generated set and a profile_path; when it was not
\* invoked or returned nothing, the four metrics are "N/A"; when it returned
\* a result, each metric is the returned value if the result holds it and
\* "N/A" if not, independently of the other three.
C7_OverviewMetrics ==
    QualityRendered =>
        LET dataset == datasets[resp.ds]
            invoked == resp.body.extractor_invoked
            result == resp.req.extracted
        IN /\ invoked = (dataset.profile_generated /\ dataset.profile_path # None)
           /\ \A key \in MetricKeys :
                ReportedMetric(resp.body, key) =
                    IF invoked /\ result # None /\ key \in DOMAIN result[1]
                    THEN result[1][key]
                    ELSE "N/A"

\* C7 witness: a report whose extractor result holds the missing-cells
\* metric and lacks the duplicate-rows metric.
C7_Witness ==
    /\ QualityRendered
    /\ resp.body.extractor_invoked
    /\ resp.req.extracted # None
    /\ DOMAIN resp.req.extracted[1] = {"missing_cells"}
    /\ resp.body.y_missing_cells = "12"
    /\ resp.body.y_dup_rows = "N/A"

\* The text of a name after its last '.': the longest dot-free suffix.
DotFreeSuffix(name) ==
    LET n == Len(name)
        k == CHOOSE k \in 0..n :
                /\ \A j \in (n - k + 1)..n : name[j] # "."
                /\ (k = n \/ name[n - k] = ".")
    IN SubSeq(name, n - k + 1, n)

\* What a call of load_df must do for extension ext on a file.
DispatchedOn(ext, file, result) ==
    IF ext \in {Str_xlsx, Str_xls}
    THEN /\ result.reads = <<"excel">>
         /\ result.ok = (file.excel = "ok")
    ELSE IF ext = Str_csv
    THEN /\ Len(result.reads) >= 1
         /\ result.reads[1] = "utf8"
         /\ (Len(result.reads) = 2) = (file.utf8 = "decode_error")
         /\ Len(result.reads) = 2 => result.reads[2] = "latin1"
         /\ result.ok = \/ file.utf8 = "ok"
                        \/ file.utf8 = "decode_error" /\ file.latin1 = "ok"
    ELSE /\ result.reads = <<>>
         /\ ~result.ok
         /\ result.error = "unsupported"

\* C8 as claimed: load_df dispatches on the lower-cased text after the last
\* '.'; a name without a '.' fails as unsupported.
C8_DispatchAfterLastDot ==
    resp.op = "load_df" =>
        LET name == resp.req.original_name IN
        IF HasDot(name)
        THEN DispatchedOn(Lower(DotFreeSuffix(name)), resp.req.file, resp.body)
        ELSE DispatchedOn(<<>>, resp.req.file, resp.body)

\* C8 amended: load_df dispatches on the lower-cased text after the last '.',
\* and on the whole lower-cased name when the name has no '.'.
C8_DispatchOnSuffix ==
    resp.op = "load_df" =>
        DispatchedOn(Lower(DotFreeSuffix(resp.req.original_name)),
                     resp.req.file, resp.body)

\* C8 witness: a name without a '.' that is read as CSV, as Latin-1 after the
\* UTF-8 read failed to decode.
C8_Witness ==
    /\ resp.op = "load_df"
    /\ ~HasDot(resp.req.original_name)
    /\ resp.body.ok
    /\ resp.body.reads = <<"utf8", "latin1">>

DatasetOps ==
    {"profile_dataset", "view_profile", "profile_report", "delete_dataset",
     "change_target_column", "quality_issues"}

Denied(r) ==
    \/ r.status = "302" /\ r.flash = "error:access_denied"
    \/ r.status = "403"

\* C9: a dataset-scoped request by a user who does not own the dataset is
\* answered access-denied, loads nothing, and changes neither the record,
\* the files nor any override.
C9_OwnerOnly ==
    [][(/\ resp'.op \in DatasetOps
        /\ resp'.ds \in DOMAIN datasets
        /\ datasets[resp'.ds].user_id # resp'.user) =>
            /\ Denied(resp')
            /\ ~resp'.body.loaded
            /\ UNCHANGED <<datasets, uploads, profiles, session>>]_vars

\* C10: the owner's delete_dataset either reports success with the record,
\* the upload and the profile report gone, or reports an error with all
\* three as they were; a record that exists has its upload on disk.
C10_DeleteAllOrNothing ==
    /\ [](\A d \in DOMAIN datasets : datasets[d].filename \in DOMAIN uploads)
    /\ [][(/\ resp'.op = "delete_dataset"
           /\ resp'.ds \in DOMAIN datasets
           /\ datasets[resp'.ds].user_id = resp'.user) =>
            LET dataset == datasets[resp'.ds] IN
            \/ /\ resp'.flash = "success:deleted"
               /\ resp'.ds \notin DOMAIN datasets'
               /\ dataset.filename \notin DOMAIN uploads'
               /\ ProfileName(resp'.ds) \notin profiles'
            \/ /\ resp'.flash = "error:deleting"
               /\ UNCHANGED <<datasets, uploads, profiles>>]_vars

====
